---- MODULE Spec2Model ----
(***************************************************************************)
(* Model of scrapy/downloadermiddlewares/retry.py: RetryMiddleware.        *)
(*                                                                         *)
(* Python values are records [cls |-> <class>, val |-> <payload>]; a class *)
(* is a record [module |-> ..., name |-> ...].  A request is a record      *)
(* [url, priority, dont_filter, meta]; meta is a function whose domain is  *)
(* the set of keys present.  The stats collector is a function from the    *)
(* keys incremented so far to their counts.                                *)
(***************************************************************************)
EXTENDS Integers, Sequences, FiniteSets, TLC

(***************************************************************************)
(* Bounds of the model.                                                    *)
(***************************************************************************)
\* largest RETRY_TIMES setting explored
MaxRetryTimes == 3
\* cap on the number of retry requests followed along one chain
MaxChain == 5

(***************************************************************************)
(* Python classes and values.                                              *)
(***************************************************************************)
object == [module |-> "builtins", name |-> "object"]
str == [module |-> "builtins", name |-> "str"]
int == [module |-> "builtins", name |-> "int"]
BaseException == [module |-> "builtins", name |-> "BaseException"]
Exception == [module |-> "builtins", name |-> "Exception"]
KeyboardInterrupt == [module |-> "builtins", name |-> "KeyboardInterrupt"]
TimeoutError == [module |-> "twisted.internet.defer", name |-> "TimeoutError"]
ConnectError == [module |-> "twisted.internet.error", name |-> "ConnectError"]
ConnectionRefusedError == [module |-> "twisted.internet.error", name |-> "ConnectionRefusedError"]

Classes == {object, str, int, BaseException, Exception, KeyboardInterrupt,
            TimeoutError, ConnectError, ConnectionRefusedError}

\* the direct base class of each class (object is its own base)
Base(c) ==
    CASE c = ConnectionRefusedError -> ConnectError
      [] c = ConnectError -> Exception
      [] c = TimeoutError -> Exception
      [] c = Exception -> BaseException
      [] c = KeyboardInterrupt -> BaseException
      [] OTHER -> object

RECURSIVE issubclass(_, _)
issubclass(c, d) ==
    IF c = d THEN TRUE
    ELSE IF c = object THEN FALSE
    ELSE issubclass(Base(c), d)

PyStr(s) == [cls |-> str, val |-> s]
PyInt(n) == [cls |-> int, val |-> n]
\* an exception instance: its class and the message it was raised with
PyExc(c, m) == [cls |-> c, val |-> m]

\* isinstance(v, c) for a single class c
isinstance(v, c) == issubclass(v.cls, c)

\* isinstance(v, classes) for a tuple of classes
isinstance_any(v, classes) ==
    \E i \in 1..Len(classes) : issubclass(v.cls, classes[i])

\* isinstance(x, six.string_types) for a settings list entry, which is either
\* a Python string or a class object
is_string(x) == "cls" \in DOMAIN x /\ x.cls = str

\* '%s' % v : a string renders as itself, an exception as its message
format_s(v) == v.val

\* int(x): a string of digits is parsed, an int is returned as it is
int_of(x) ==
    IF x.cls = str THEN CHOOSE n \in 100..599 : ToString(n) = x.val
    ELSE x.val

\* dict.get(key, default)
get(d, k, default) == IF k \in DOMAIN d THEN d[k] ELSE default

(***************************************************************************)
(* Helpers of the repository that retry.py imports.                        *)
(***************************************************************************)
\* twisted.web.http.RESPONSES, restricted to the statuses explored
RESPONSES(status) ==
    CASE status = 404 -> "Not Found"
      [] status = 408 -> "Request Time-out"
      [] status = 500 -> "Internal Server Error"
      [] status = 502 -> "Bad Gateway"
      [] status = 503 -> "Service Unavailable"
      [] status = 504 -> "Gateway Time-out"
      [] OTHER -> "Unknown Status"

\* scrapy.utils.response.response_status_message: "<code> <phrase>"
response_status_message(status) ==
    ToString(status) \o " " \o RESPONSES(status)

\* scrapy.utils.python.global_object_name: "<module>.<name>"
global_object_name(c) == c.module \o "." \o c.name

\* scrapy.utils.misc.load_object: the object a dotted path names
load_object(path) ==
    CHOOSE c \in Classes : global_object_name(c) = path.val

\* StatsCollector.inc_value(key): count 1 more, starting from 0
inc_value(stats, key) ==
    [k \in DOMAIN stats \cup {key} |->
        get(stats, k, 0) + (IF k = key THEN 1 ELSE 0)]

\* Request.copy(): a new request with the same fields and its own meta dict
copy(request) ==
    [url |-> request.url,
     priority |-> request.priority,
     dont_filter |-> request.dont_filter,
     meta |-> [k \in DOMAIN request.meta |-> request.meta[k]]]

(***************************************************************************)
(* Results of the entry points.                                            *)
(***************************************************************************)
None == [kind |-> "None", value |-> "None"]
ReturnRequest(r) == [kind |-> "Request", value |-> r]
ReturnResponse(r) == [kind |-> "Response", value |-> r]

(***************************************************************************)
(* RetryMiddleware                                                         *)
(***************************************************************************)
NotConfigured == [raised |-> "NotConfigured"]

\* __init__ that does not look at RETRY_ENABLED
__init__always_enabled(settings, cls_attrs) ==
    [raised |-> "",
     max_retry_times |-> settings.RETRY_TIMES,
     retry_http_codes |->
         {int_of(settings.RETRY_HTTP_CODES[i]) :
             i \in 1..Len(settings.RETRY_HTTP_CODES)},
     priority_adjust |-> settings.RETRY_PRIORITY_ADJUST,
     exceptions_to_retry |->
         IF "EXCEPTIONS_TO_RETRY" \notin DOMAIN cls_attrs
         THEN [i \in 1..Len(settings.RETRY_EXCEPTIONS) |->
                 IF is_string(settings.RETRY_EXCEPTIONS[i])
                 THEN load_object(settings.RETRY_EXCEPTIONS[i])
                 ELSE settings.RETRY_EXCEPTIONS[i]]
         ELSE cls_attrs.EXCEPTIONS_TO_RETRY]

\* the settings __init__ reads, in the order of its getbool, getint and
\* getlist calls (retry.py:40-48)
settings_read(settings, cls_attrs) ==
    IF ~settings.RETRY_ENABLED THEN <<"RETRY_ENABLED">>
    ELSE <<"RETRY_ENABLED", "RETRY_TIMES", "RETRY_HTTP_CODES",
           "RETRY_PRIORITY_ADJUST">>
         \o (IF "EXCEPTIONS_TO_RETRY" \notin DOMAIN cls_attrs
             THEN <<"RETRY_EXCEPTIONS">> ELSE <<>>)

\* RetryMiddleware.__init__(settings); cls_attrs holds the class attributes
\* a subclass defines (EXCEPTIONS_TO_RETRY when it overrides the list)
__init__(settings, cls_attrs) ==
    IF ~settings.RETRY_ENABLED THEN NotConfigured
    ELSE [raised |-> "",
          max_retry_times |-> settings.RETRY_TIMES,
          retry_http_codes |->
              {int_of(settings.RETRY_HTTP_CODES[i]) :
                  i \in 1..Len(settings.RETRY_HTTP_CODES)},
          priority_adjust |-> settings.RETRY_PRIORITY_ADJUST,
          exceptions_to_retry |->
              IF "EXCEPTIONS_TO_RETRY" \notin DOMAIN cls_attrs
              THEN [i \in 1..Len(settings.RETRY_EXCEPTIONS) |->
                      IF is_string(settings.RETRY_EXCEPTIONS[i])
                      THEN load_object(settings.RETRY_EXCEPTIONS[i])
                      ELSE settings.RETRY_EXCEPTIONS[i]]
              ELSE cls_attrs.EXCEPTIONS_TO_RETRY]

\* retry.py:71  retries = request.meta.get('retry_times', 0) + 1
retries_wrong_default(request) == get(request.meta, "retry_times", 1) + 1

retries(request) == get(request.meta, "retry_times", 0) + 1

\* retry.py:73-76  the per-request max_retry_times replaces the global one
retry_times_merged(self, request) ==
    IF "max_retry_times" \in DOMAIN request.meta
       /\ request.meta["max_retry_times"] < self.max_retry_times
    THEN request.meta["max_retry_times"]
    ELSE self.max_retry_times

\* the override read with "meta.get('max_retry_times') or global": a 0
\* counts as absent
retry_times_falsy_override(self, request) ==
    IF "max_retry_times" \in DOMAIN request.meta
       /\ request.meta["max_retry_times"] # 0
    THEN request.meta["max_retry_times"]
    ELSE self.max_retry_times

retry_times(self, request) ==
    IF "max_retry_times" \in DOMAIN request.meta
    THEN request.meta["max_retry_times"]
    ELSE self.max_retry_times

\* retry.py:83-86  the request to reschedule
retryreq_without_retry_times(self, request, n) ==
    [copy(request) EXCEPT
        !.dont_filter = TRUE,
        !.priority = request.priority + self.priority_adjust]

retryreq_clamped(self, request, n) ==
    LET c == copy(request)
        p == request.priority + self.priority_adjust
    IN  [c EXCEPT
           !.meta = [k \in DOMAIN c.meta \cup {"retry_times"} |->
                       IF k = "retry_times" THEN n ELSE c.meta[k]],
           !.dont_filter = TRUE,
           !.priority = IF p < 0 THEN 0 ELSE p]

\* The objects lines 83-86 work on: request objects ("o1" is the caller's
\* request, "o2" the copy) whose meta attribute refers to a dict ("d1", "d2").
Heap(request) ==
    [objs |-> [o \in {"o1"} |->
                 [url |-> request.url, priority |-> request.priority,
                  dont_filter |-> request.dont_filter, meta |-> "d1"]],
     dicts |-> [d \in {"d1"} |-> request.meta]]

\* the value of object o: its attributes and the entries of its meta dict
deref(h, o) ==
    [url |-> h.objs[o].url, priority |-> h.objs[o].priority,
     dont_filter |-> h.objs[o].dont_filter, meta |-> h.dicts[h.objs[o].meta]]

\* o.copy(): a new object "o2" with the attributes of o and a meta dict
\* "d2" of its own
heap_copy(h, o) ==
    LET v == copy(deref(h, o))
    IN  [objs |-> [x \in DOMAIN h.objs \cup {"o2"} |->
                     IF x = "o2"
                     THEN [url |-> v.url, priority |-> v.priority,
                           dont_filter |-> v.dont_filter, meta |-> "d2"]
                     ELSE h.objs[x]],
         dicts |-> [x \in DOMAIN h.dicts \cup {"d2"} |->
                     IF x = "d2" THEN v.meta ELSE h.dicts[x]]]

\* o.meta[k] = v
setitem(h, o, k, v) ==
    LET d == h.objs[o].meta
        old == h.dicts[d]
    IN  [h EXCEPT !.dicts[d] =
            [j \in DOMAIN old \cup {k} |-> IF j = k THEN v ELSE old[j]]]

\* the heap after statement Stmt was executed on heap h
Run(h, Stmt(_)) == CHOOSE after \in {Stmt(before) : before \in {h}} : TRUE

\* lines 83-86 with retryreq bound to the request itself instead of a copy
reschedule_in_place(self, request, n) ==
    LET set_retry_times(h) == setitem(h, "o1", "retry_times", n)
        set_dont_filter(h) == [h EXCEPT !.objs["o1"].dont_filter = TRUE]
        set_priority(h) ==
            [h EXCEPT !.objs["o1"].priority =
                h.objs["o1"].priority + self.priority_adjust]
        values(h) == [request |-> deref(h, "o1"), retryreq |-> deref(h, "o1")]
    IN  Run(Run(Run(Run(Heap(request),
            set_retry_times), set_dont_filter), set_priority), values)

\* retry.py:83-86: the caller's request and the request to reschedule
\* after the four statements
reschedule(self, request, n) ==
    LET \* retryreq = request.copy()
        copy_request(h) == heap_copy(h, "o1")
        \* retryreq.meta['retry_times'] = retries
        set_retry_times(h) == setitem(h, "o2", "retry_times", n)
        \* retryreq.dont_filter = True
        set_dont_filter(h) == [h EXCEPT !.objs["o2"].dont_filter = TRUE]
        \* retryreq.priority = request.priority + self.priority_adjust
        set_priority(h) ==
            [h EXCEPT !.objs["o2"].priority =
                h.objs["o1"].priority + self.priority_adjust]
        values(h) == [request |-> deref(h, "o1"), retryreq |-> deref(h, "o2")]
    IN  Run(Run(Run(Run(Run(Heap(request),
            copy_request), set_retry_times), set_dont_filter), set_priority),
            values)

\* the priority is adjusted on the first retry only
retryreq_adjust_once(self, request, n) ==
    LET r == reschedule(self, request, n).retryreq
    IN  [r EXCEPT !.priority =
            IF n = 1 THEN request.priority + self.priority_adjust
            ELSE request.priority]

retryreq(self, request, n) == reschedule(self, request, n).retryreq

\* retry.py:88-92  the key of the per-reason counter
reason_key(reason) ==
    LET rendered == IF isinstance(reason, Exception)
                    THEN PyStr(global_object_name(reason.cls))
                    ELSE reason
    IN  "retry/reason_count/" \o format_s(rendered)

\* retry.py:94-98  the budget is exhausted: count it and return None
give_up_uncounted(stats) == [result |-> None, stats |-> stats]

give_up(stats) ==
    [result |-> None, stats |-> inc_value(stats, "retry/max_reached")]

\* _retry with the comparison retries < retry_times
_retry_strict(self, request, reason, stats) ==
    IF retries(request) < retry_times(self, request)
    THEN [result |-> ReturnRequest(retryreq(self, request, retries(request))),
          stats |-> inc_value(inc_value(stats, "retry/count"),
                              reason_key(reason)),
          request |-> reschedule(self, request, retries(request)).request]
    ELSE [result |-> give_up(stats).result, stats |-> give_up(stats).stats,
          request |-> request]

\* _retry without the retry/count increment
_retry_uncounted(self, request, reason, stats) ==
    IF retries(request) <= retry_times(self, request)
    THEN [result |-> ReturnRequest(retryreq(self, request, retries(request))),
          stats |-> inc_value(stats, reason_key(reason)),
          request |-> reschedule(self, request, retries(request)).request]
    ELSE [result |-> give_up(stats).result, stats |-> give_up(stats).stats,
          request |-> request]

\* _retry that takes the attempt number from the retry/count counter
_retry_counting_globally(self, request, reason, stats) ==
    IF get(stats, "retry/count", 0) + 1 <= retry_times(self, request)
    THEN [result |-> ReturnRequest(retryreq(self, request, retries(request))),
          stats |-> inc_value(inc_value(stats, "retry/count"),
                              reason_key(reason)),
          request |-> reschedule(self, request, retries(request)).request]
    ELSE [result |-> give_up(stats).result, stats |-> give_up(stats).stats,
          request |-> request]

\* RetryMiddleware._retry(request, reason, spider); stats is
\* spider.crawler.stats.  Yields the value returned, the stats afterwards and
\* the caller's request as the call leaves it.
\* (The two logger.debug calls change no state.)
_retry(self, request, reason, stats) ==
    IF retries(request) <= retry_times(self, request)
    THEN [result |-> ReturnRequest(retryreq(self, request, retries(request))),
          stats |-> inc_value(inc_value(stats, "retry/count"),
                              reason_key(reason)),
          request |-> reschedule(self, request, retries(request)).request]
    ELSE [result |-> give_up(stats).result, stats |-> give_up(stats).stats,
          request |-> request]

\* process_response that retries every 5xx status
process_response_any_5xx(self, request, response, stats) ==
    IF get(request.meta, "dont_retry", FALSE)
    THEN [result |-> ReturnResponse(response), stats |-> stats,
          request |-> request]
    ELSE IF response.status >= 500
    THEN LET reason == PyStr(response_status_message(response.status))
             r == _retry(self, request, reason, stats)
         IN  [result |-> IF r.result.kind = "None"
                         THEN ReturnResponse(response)
                         ELSE r.result,
              stats |-> r.stats, request |-> r.request]
    ELSE [result |-> ReturnResponse(response), stats |-> stats,
          request |-> request]

\* process_response without the "or response" fallback
process_response_no_fallback(self, request, response, stats) ==
    IF get(request.meta, "dont_retry", FALSE)
    THEN [result |-> ReturnResponse(response), stats |-> stats,
          request |-> request]
    ELSE IF response.status \in self.retry_http_codes
    THEN _retry(self, request,
                PyStr(response_status_message(response.status)), stats)
    ELSE [result |-> ReturnResponse(response), stats |-> stats,
          request |-> request]

\* RetryMiddleware.process_response(request, response, spider)
process_response(self, request, response, stats) ==
    IF get(request.meta, "dont_retry", FALSE)
    THEN [result |-> ReturnResponse(response), stats |-> stats,
          request |-> request]
    ELSE IF response.status \in self.retry_http_codes
    THEN LET reason == PyStr(response_status_message(response.status))
             r == _retry(self, request, reason, stats)
         IN  [result |-> IF r.result.kind = "None"
                         THEN ReturnResponse(response)
                         ELSE r.result,
              stats |-> r.stats, request |-> r.request]
    ELSE [result |-> ReturnResponse(response), stats |-> stats,
          request |-> request]

\* process_exception that matches the exception's own class only
process_exception_exact_type(self, request, exception, stats) ==
    IF (\E i \in 1..Len(self.exceptions_to_retry) :
            exception.cls = self.exceptions_to_retry[i])
       /\ ~get(request.meta, "dont_retry", FALSE)
    THEN _retry(self, request, exception, stats)
    ELSE [result |-> None, stats |-> stats, request |-> request]

\* process_exception that counts an exception it does not retry as a give-up
process_exception_counting_unhandled(self, request, exception, stats) ==
    IF isinstance_any(exception, self.exceptions_to_retry)
       /\ ~get(request.meta, "dont_retry", FALSE)
    THEN _retry(self, request, exception, stats)
    ELSE [result |-> None, stats |-> give_up(stats).stats,
          request |-> request]

\* process_exception without the dont_retry test
process_exception_ignoring_dont_retry(self, request, exception, stats) ==
    IF isinstance_any(exception, self.exceptions_to_retry)
    THEN _retry(self, request, exception, stats)
    ELSE [result |-> None, stats |-> stats, request |-> request]

\* RetryMiddleware.process_exception(request, exception, spider)
process_exception(self, request, exception, stats) ==
    IF isinstance_any(exception, self.exceptions_to_retry)
       /\ ~get(request.meta, "dont_retry", FALSE)
    THEN _retry(self, request, exception, stats)
    ELSE [result |-> None, stats |-> stats, request |-> request]

(***************************************************************************)
(* The inputs explored.                                                    *)
(***************************************************************************)
\* values of the RETRY_HTTP_CODES setting: a list of ints, or of strings
HttpCodesSettings ==
    {<<PyInt(500), PyInt(502), PyInt(503), PyInt(504)>>,
     <<PyStr("503"), PyStr("408")>>}

\* values of the RETRY_EXCEPTIONS setting: dotted paths and class objects
RetryExceptionsSettings ==
    {<<PyStr("twisted.internet.defer.TimeoutError"), ConnectError>>,
     <<PyStr("twisted.internet.error.ConnectError"), KeyboardInterrupt>>}

PriorityAdjusts == {-1, 0, 1}

SettingsSet ==
    [RETRY_ENABLED : BOOLEAN,
     RETRY_TIMES : 0..MaxRetryTimes,
     RETRY_HTTP_CODES : HttpCodesSettings,
     RETRY_PRIORITY_ADJUST : PriorityAdjusts,
     RETRY_EXCEPTIONS : RetryExceptionsSettings]

\* class attributes of RetryMiddleware itself, and of a subclass that
\* overrides EXCEPTIONS_TO_RETRY
BaseAttrs == [__module__ |-> "scrapy.downloadermiddlewares.retry"]
OverrideAttrs == [__module__ |-> "myproject.middlewares",
                  EXCEPTIONS_TO_RETRY |-> <<TimeoutError>>]

\* an optional meta entry is a sequence of length 0 (absent) or 1 (present)
MakeMeta(dr, rt, mrt) ==
    [k \in (IF dr = <<>> THEN {} ELSE {"dont_retry"})
           \cup (IF rt = <<>> THEN {} ELSE {"retry_times"})
           \cup (IF mrt = <<>> THEN {} ELSE {"max_retry_times"}) |->
        CASE k = "dont_retry" -> dr[1]
          [] k = "retry_times" -> rt[1]
          [] k = "max_retry_times" -> mrt[1]]

DontRetryChoices == {<<>>, <<FALSE>>, <<TRUE>>}
RetryTimesChoices == {<<>>, <<1>>, <<2>>}
MaxRetryTimesChoices == {<<>>, <<-1>>, <<0>>, <<1>>, <<4>>}
Priorities == {0, 10}

Statuses == {404, 408, 500, 503}
RaisedClasses == {TimeoutError, ConnectionRefusedError, KeyboardInterrupt}
Messages == {"timed out", "refused"}

Slots == {1, 2}

NoRequest == [url |-> "", priority |-> 0, dont_filter |-> FALSE,
              meta |-> MakeMeta(<<>>, <<>>, <<>>)]

(***************************************************************************)
(* State.                                                                  *)
(***************************************************************************)
VARIABLES
    settings,  \* the settings the middleware was constructed from
    cls_attrs, \* the class attributes of the class that was instantiated
    reads,     \* the settings __init__ read, in order
    mw,        \* the RetryMiddleware instance, or NotConfigured
    stats,     \* spider.crawler.stats
    state,     \* per chain: "unused", "downloading", "passed", "propagated"
    request,   \* per chain: the request being downloaded
    first,     \* per chain: the request the chain started from
    retried,   \* per chain: number of retry requests returned so far
    gaveup,    \* per chain: number of retry/max_reached increments it caused
    last,      \* the last entry-point call: arguments, stats before, result,
               \* the request argument as the call left it, and the result
               \* the same call has when its chain runs alone
    lastcall,  \* per chain: the last entry-point call made for it
    own,       \* per chain: the stats a run of this chain alone has
    inflight   \* per chain: the entry-point call that is executing, if any

vars == <<settings, cls_attrs, reads, mw, stats, state, request, first, retried, gaveup, last,
          lastcall, own, inflight>>

NoCall == [op |-> "none", slot |-> 0, request |-> NoRequest,
           failure |-> PyStr(""), stats |-> [k \in {} |-> 0], result |-> None,
           after |-> NoRequest, alone |-> None]

\* no call is executing
Idle == [active |-> FALSE, call |-> NoCall, incs |-> <<>>]

\* one chain is started from any request; the middleware is constructed
\* from any settings
Init ==
    /\ settings \in SettingsSet
    /\ cls_attrs \in {BaseAttrs, OverrideAttrs}
    /\ mw = __init__(settings, cls_attrs)
    /\ reads = settings_read(settings, cls_attrs)
    /\ stats = [k \in {} |-> 0]
    /\ \E p \in Priorities, df \in BOOLEAN, dr \in DontRetryChoices,
          rt \in RetryTimesChoices, mrt \in MaxRetryTimesChoices :
          LET r == [url |-> "http://example.com/1", priority |-> p,
                    dont_filter |-> df, meta |-> MakeMeta(dr, rt, mrt)]
          IN  /\ request = [s \in Slots |-> IF s = 1 THEN r ELSE NoRequest]
              /\ first = request
    /\ state = [s \in Slots |-> IF s = 1 THEN "downloading" ELSE "unused"]
    /\ retried = [s \in Slots |-> 0]
    /\ gaveup = [s \in Slots |-> 0]
    /\ last = NoCall
    /\ lastcall = [s \in Slots |-> NoCall]
    /\ own = [s \in Slots |-> [k \in {} |-> 0]]
    /\ inflight = [s \in Slots |-> Idle]

\* the effect on chain s of an entry point having returned res; alone is
\* what the same call yields in a run of chain s alone
Deliver(s, op, failure, res, alone, ended) ==
    /\ stats' = res.stats
    /\ gaveup' = [gaveup EXCEPT ![s] = @ + get(res.stats, "retry/max_reached", 0)
                                         - get(stats, "retry/max_reached", 0)]
    /\ LET call == [op |-> op, slot |-> s, request |-> request[s],
                    failure |-> failure, stats |-> stats,
                    result |-> res.result, after |-> res.request,
                    alone |-> alone.result]
       IN  /\ last' = call
           /\ lastcall' = [lastcall EXCEPT ![s] = call]
    /\ own' = [own EXCEPT ![s] = alone.stats]
    /\ UNCHANGED inflight
    /\ IF res.result.kind = "Request"
       THEN /\ request' = [request EXCEPT ![s] = res.result.value]
            /\ retried' = [retried EXCEPT ![s] = @ + 1]
            /\ state' = state
       ELSE /\ state' = [state EXCEPT ![s] = ended]
            /\ UNCHANGED <<request, retried>>
    /\ UNCHANGED <<settings, cls_attrs, reads, mw, first>>

\* the download of chain s's request completed with a response
ProcessResponse(s, status) ==
    /\ mw.raised = ""
    /\ state[s] = "downloading"
    /\ retried[s] < MaxChain
    /\ LET response == [status |-> status]
       IN  \E res \in {process_response(mw, request[s], response, stats)},
              alone \in {process_response(mw, request[s], response, own[s])} :
              Deliver(s, "process_response", response, res, alone, "passed")

\* the download of chain s's request raised an exception
ProcessException(s, c, m) ==
    /\ mw.raised = ""
    /\ state[s] = "downloading"
    /\ retried[s] < MaxChain
    /\ LET exception == PyExc(c, m)
       IN  \E res \in {process_exception(mw, request[s], exception, stats)},
              alone \in {process_exception(mw, request[s], exception, own[s])} :
              Deliver(s, "process_exception", exception, res, alone,
                      "propagated")

Next ==
    \/ \E s \in Slots, status \in Statuses : ProcessResponse(s, status)
    \/ \E s \in Slots, c \in RaisedClasses, m \in Messages :
          ProcessException(s, c, m)

Spec == Init /\ [][Next]_vars

\* a chain in which every download fails with a retryable failure, and the
\* pipeline keeps downloading what it is handed back
RetryableResponse(s, status) ==
    /\ mw.raised = ""
    /\ status \in mw.retry_http_codes
    /\ ProcessResponse(s, status)

RetryableException(s, c, m) ==
    /\ mw.raised = ""
    /\ isinstance_any(PyExc(c, m), mw.exceptions_to_retry)
    /\ ProcessException(s, c, m)

NextChain ==
    \/ \E s \in Slots, status \in Statuses : RetryableResponse(s, status)
    \/ \E s \in Slots, c \in RaisedClasses, m \in Messages :
          RetryableException(s, c, m)

\* the chains explored for termination: every combination of the global
\* maximum, dont_retry, retry_times and max_retry_times, for one priority,
\* one priority adjustment and one set of retryable codes and exceptions
InitChain ==
    /\ Init
    /\ request[1].priority = 0
    /\ ~request[1].dont_filter
    /\ cls_attrs = BaseAttrs
    /\ settings.RETRY_PRIORITY_ADJUST = 1
    /\ settings.RETRY_HTTP_CODES =
          <<PyInt(500), PyInt(502), PyInt(503), PyInt(504)>>
    /\ settings.RETRY_EXCEPTIONS =
          <<PyStr("twisted.internet.defer.TimeoutError"), ConnectError>>

ChainSpec == InitChain /\ [][NextChain]_vars /\ WF_vars(NextChain)

(***************************************************************************)
(* Two chains whose entry-point calls overlap.  A call decides and builds  *)
(* its result (retry.py:57-89), then performs its stats increments one by  *)
(* one (retry.py:91-92 or 95), then returns; each inc_value is atomic, and *)
(* the steps of calls on different requests interleave in any order.       *)
(***************************************************************************)
PairRetryTimes == {2}
PairAdjusts == {-1, 1}
\* the meta of the requests of the two chains
PairMetas ==
    {MakeMeta(<<>>, <<>>, <<>>), MakeMeta(<<TRUE>>, <<>>, <<>>),
     MakeMeta(<<>>, <<1>>, <<>>), MakeMeta(<<>>, <<>>, <<1>>)}
PairStatuses == {404, 503}

InitPair ==
    /\ settings \in [RETRY_ENABLED : {TRUE},
                     RETRY_TIMES : PairRetryTimes,
                     RETRY_HTTP_CODES :
                         {<<PyInt(500), PyInt(502), PyInt(503), PyInt(504)>>},
                     RETRY_PRIORITY_ADJUST : PairAdjusts,
                     RETRY_EXCEPTIONS :
                         {<<PyStr("twisted.internet.defer.TimeoutError"),
                            ConnectError>>}]
    /\ cls_attrs = BaseAttrs
    /\ mw = __init__(settings, cls_attrs)
    /\ reads = settings_read(settings, cls_attrs)
    /\ stats = [k \in {} |-> 0]
    /\ \E m1 \in PairMetas, m2 \in PairMetas :
          request = [s \in Slots |->
                        IF s = 1
                        THEN [url |-> "http://example.com/1", priority |-> 0,
                              dont_filter |-> FALSE, meta |-> m1]
                        ELSE [url |-> "http://example.com/2", priority |-> 10,
                              dont_filter |-> TRUE, meta |-> m2]]
    /\ first = request
    /\ state = [s \in Slots |-> "downloading"]
    /\ retried = [s \in Slots |-> 0]
    /\ gaveup = [s \in Slots |-> 0]
    /\ last = NoCall
    /\ lastcall = [s \in Slots |-> NoCall]
    /\ own = [s \in Slots |-> [k \in {} |-> 0]]
    /\ inflight = [s \in Slots |-> Idle]

\* the inc_value calls that take the stats from before to after, in the
\* order of the code: retry/count, then the reason counter; or
\* retry/max_reached
increments(before, after) ==
    LET grown == {k \in DOMAIN after : after[k] > get(before, k, 0)}
        others == grown \ {"retry/count"}
    IN  (IF "retry/count" \in grown THEN <<"retry/count">> ELSE <<>>)
        \o (IF others = {} THEN <<>> ELSE <<CHOOSE k \in others : TRUE>>)

\* chain s's call has decided: res is its outcome on the present stats
Begin(s, op, failure, res, alone) ==
    /\ mw.raised = ""
    /\ state[s] = "downloading"
    /\ ~inflight[s].active
    /\ retried[s] < MaxChain
    /\ inflight' = [inflight EXCEPT ![s] =
          [active |-> TRUE,
           call |-> [op |-> op, slot |-> s, request |-> request[s],
                     failure |-> failure, stats |-> stats,
                     result |-> res.result, after |-> res.request,
                     alone |-> alone.result],
           incs |-> increments(stats, res.stats)]]
    /\ own' = [own EXCEPT ![s] = alone.stats]
    /\ UNCHANGED <<settings, cls_attrs, reads, mw, stats, state, request,
                   first, retried, gaveup, last, lastcall>>

BeginResponse(s, status) ==
    LET response == [status |-> status]
    IN  \E res \in {process_response(mw, request[s], response, stats)},
           alone \in {process_response(mw, request[s], response, own[s])} :
           Begin(s, "process_response", response, res, alone)

BeginException(s, c, m) ==
    LET exception == PyExc(c, m)
    IN  \E res \in {process_exception(mw, request[s], exception, stats)},
           alone \in {process_exception(mw, request[s], exception, own[s])} :
           Begin(s, "process_exception", exception, res, alone)

\* the next stats.inc_value call of chain s's call
IncStat(s) ==
    /\ inflight[s].active
    /\ inflight[s].incs # <<>>
    /\ stats' = inc_value(stats, Head(inflight[s].incs))
    /\ gaveup' = [gaveup EXCEPT ![s] =
          @ + (IF Head(inflight[s].incs) = "retry/max_reached" THEN 1 ELSE 0)]
    /\ inflight' = [inflight EXCEPT ![s].incs = Tail(@)]
    /\ UNCHANGED <<settings, cls_attrs, reads, mw, state, request, first,
                   retried, last, lastcall, own>>

\* chain s's call returns
Return(s) ==
    /\ inflight[s].active
    /\ inflight[s].incs = <<>>
    /\ last' = inflight[s].call
    /\ lastcall' = [lastcall EXCEPT ![s] = inflight[s].call]
    /\ inflight' = [inflight EXCEPT ![s] = Idle]
    /\ IF inflight[s].call.result.kind = "Request"
       THEN /\ request' = [request EXCEPT ![s] = inflight[s].call.result.value]
            /\ retried' = [retried EXCEPT ![s] = @ + 1]
            /\ state' = state
       ELSE /\ state' = [state EXCEPT ![s] =
                  IF inflight[s].call.op = "process_response"
                  THEN "passed" ELSE "propagated"]
            /\ UNCHANGED <<request, retried>>
    /\ UNCHANGED <<settings, cls_attrs, reads, mw, stats, first, gaveup, own>>

NextPair ==
    \/ \E s \in Slots, status \in PairStatuses : BeginResponse(s, status)
    \/ \E s \in Slots : BeginException(s, TimeoutError, "timed out")
    \/ \E s \in Slots : IncStat(s)
    \/ \E s \in Slots : Return(s)

PairSpec == InitPair /\ [][NextPair]_vars

(***************************************************************************)
(* Vocabulary of the properties.                                           *)
(***************************************************************************)
DontRetry(r) == get(r.meta, "dont_retry", FALSE)
RetryTimesOf(r) == get(r.meta, "retry_times", 0)
Attempts(r) == RetryTimesOf(r) + 1
HasOverride(r) == "max_retry_times" \in DOMAIN r.meta
EffectiveMax(r) ==
    IF HasOverride(r) THEN r.meta["max_retry_times"] ELSE mw.max_retry_times
MaxReached(st) == get(st, "retry/max_reached", 0)
Called == last.op # "none"
OnResponse == last.op = "process_response"
OnException == last.op = "process_exception"
\* the failure of the last call is one the policy classifies as retryable
RetryableFailure ==
    \/ OnResponse /\ last.failure.status \in mw.retry_http_codes
    \/ OnException /\ isinstance_any(last.failure, mw.exceptions_to_retry)
Retried == last.result.kind = "Request"
Ended(s) == state[s] \in {"passed", "propagated"}

TypeOK ==
    /\ state \in [Slots -> {"unused", "downloading", "passed", "propagated"}]
    /\ \A s \in Slots : retried[s] \in 0..MaxChain
    \* the cap on the chain length never stops a chain of the code
    /\ \A s \in Slots : state[s] = "downloading" => retried[s] < MaxChain

\* C1: a request whose meta has dont_retry = true is never retried:
\* process_response returns the given response and process_exception
\* returns None, whatever the status, the exception type, retry_times and
\* max_retry_times are.
C1_DontRetryNeverRetries ==
    (Called /\ DontRetry(last.request)) =>
        /\ ~Retried
        /\ OnResponse =>
              last.result.kind = "Response" /\ last.result.value = last.failure
        /\ OnException => last.result.kind = "None"

\* a dont_retry request failed with a retryable status while it still had
\* retries left
C1_Witness ==
    /\ OnResponse
    /\ DontRetry(last.request)
    /\ RetryableFailure
    /\ Attempts(last.request) <= EffectiveMax(last.request)
    /\ last.result.kind = "Response"

\* the last call reached the shared retry procedure
ReachedRetry == Called /\ ~DontRetry(last.request) /\ RetryableFailure
Exhausted == Attempts(last.request) > EffectiveMax(last.request)
Max0(n) == IF n < 0 THEN 0 ELSE n

\* C2: retries are bounded: when every download of a chain fails with a
\* retryable failure and each returned retry request is the one downloaded
\* next, the chain stops being retried, and (unless the request opted out
\* with dont_retry) it stops by the give-up decision.
C2_ChainGivesUp ==
    <>(\/ mw.raised # ""
       \/ \A s \in Slots :
             /\ state[s] # "downloading"
             /\ (state[s] # "unused" /\ ~DontRetry(first[s])) => gaveup[s] = 1)

\* a chain that was retried as often as the largest global maximum allows
\* and then gave up
C2_Witness ==
    /\ gaveup[1] = 1
    /\ ~HasOverride(first[1])
    /\ retried[1] = mw.max_retry_times
    /\ retried[1] >= 3

\* C3: the retry_times of a chain's current request is the retry_times the
\* chain started with (0 when absent) plus the number of retries so far, so
\* the N-th retry of a request without retry_times carries retry_times = N;
\* each retry stores the failed request's retry_times + 1.
C3_RetryTimesCountsRetries ==
    /\ \A s \in Slots :
          /\ state[s] # "unused" =>
                RetryTimesOf(request[s]) = RetryTimesOf(first[s]) + retried[s]
          /\ retried[s] > 0 => "retry_times" \in DOMAIN request[s].meta
    /\ Retried =>
          last.result.value.meta["retry_times"] = RetryTimesOf(last.request) + 1

\* the third retry of a request that started without retry_times
C3_Witness ==
    /\ "retry_times" \notin DOMAIN first[1].meta
    /\ retried[1] = 3
    /\ Retried
    /\ request[1].meta["retry_times"] = 3

\* C4: the shared retry procedure returns a retry request iff
\* attempts <= effective_max; with max_retry_times = 3 and no override
\* attempts 1..3 retry and attempt 4 gives up; with max_retry_times = 0 and
\* no override nothing is retried.
C4_RetryIffWithinBudget ==
    ReachedRetry =>
        /\ Retried <=> Attempts(last.request) <= EffectiveMax(last.request)
        /\ (mw.max_retry_times = 3 /\ ~HasOverride(last.request)) =>
              (Retried <=> Attempts(last.request) \in {1, 2, 3})
        /\ (mw.max_retry_times = 0 /\ ~HasOverride(last.request)) => ~Retried

\* attempt 4 under max_retry_times = 3 without override: give-up after
\* three retries
C4_Witness ==
    /\ ReachedRetry
    /\ mw.max_retry_times = 3
    /\ ~HasOverride(last.request)
    /\ "retry_times" \notin DOMAIN first[1].meta
    /\ Attempts(last.request) = 4
    /\ retried[1] = 3
    /\ ~Retried

\* C5: a call that returns a retry request leaves retry/max_reached alone;
\* the call that gives up increments it by exactly 1, and a chain causes at
\* most one such increment, which ends it.
C5_MaxReachedOnlyOnGiveUp ==
    /\ Retried => MaxReached(stats) = MaxReached(last.stats)
    /\ (ReachedRetry /\ Exhausted) =>
          /\ MaxReached(stats) = MaxReached(last.stats) + 1
          /\ gaveup[last.slot] = 1
    /\ \A s \in Slots :
          /\ gaveup[s] \in {0, 1}
          /\ gaveup[s] = 1 => Ended(s)

\* a chain that was retried twice or more and then gave up
C5_Witness ==
    /\ ReachedRetry
    /\ Exhausted
    /\ retried[1] >= 2
    /\ MaxReached(stats) = 1

\* C6: a max_retry_times in the request's meta is the effective maximum of
\* the request and of every retry derived from it, whether smaller or
\* larger than the global maximum.
C6_OverrideReplacesGlobal ==
    /\ \A s \in Slots :
          (state[s] # "unused" /\ HasOverride(first[s])) =>
              LET m == first[s].meta["max_retry_times"]
                  budget == Max0(m - RetryTimesOf(first[s]))
              IN  /\ HasOverride(request[s])
                  /\ request[s].meta["max_retry_times"] = m
                  /\ retried[s] <= budget
                  /\ gaveup[s] = 1 => retried[s] = budget
    /\ (ReachedRetry /\ HasOverride(last.request)) =>
          (Retried <=>
              Attempts(last.request) <= last.request.meta["max_retry_times"])

\* global maximum 3, override 1: exactly one retry, then give-up
C6_Witness ==
    /\ mw.raised = ""
    /\ mw.max_retry_times = 3
    /\ HasOverride(first[1])
    /\ first[1].meta["max_retry_times"] = 1
    /\ "retry_times" \notin DOMAIN first[1].meta
    /\ retried[1] = 1
    /\ gaveup[1] = 1

\* C7: every retry request has dont_filter = true and the failed request's
\* priority plus priority_adjust, unclamped.
C7_RetryRequestPriorityAndFilter ==
    Retried =>
        /\ last.result.value.dont_filter = TRUE
        /\ last.result.value.priority =
              last.request.priority + mw.priority_adjust

\* a negative adjustment took the priority of a filtered request below zero
C7_Witness ==
    /\ Retried
    /\ ~last.request.dont_filter
    /\ mw.priority_adjust < 0
    /\ last.result.value.priority < 0
    /\ last.result.value.dont_filter

\* C8: on the response path without dont_retry, a status outside the
\* retryable codes returns the response itself; a retryable status within
\* budget returns a retry request and increments the reason counter whose
\* key is built from the status alone.
C8_ResponsePath ==
    (OnResponse /\ ~DontRetry(last.request)) =>
        LET status == last.failure.status
            key == "retry/reason_count/" \o response_status_message(status)
        IN  /\ status \notin mw.retry_http_codes =>
                  /\ last.result.kind = "Response"
                  /\ last.result.value = last.failure
            /\ (status \in mw.retry_http_codes /\ ~Exhausted) =>
                  /\ Retried
                  /\ key \in DOMAIN stats
                  /\ stats[key] = get(last.stats, key, 0) + 1

\* codes {500, 502, 503, 504}: a 503 is retried
C8_Witness ==
    /\ OnResponse
    /\ mw.retry_http_codes = {500, 502, 503, 504}
    /\ last.failure.status = 503
    /\ Retried
    /\ get(stats, "retry/reason_count/503 Service Unavailable", 0) = 1

\* C9: a retry on the exception path increments the counter keyed by the
\* exception's fully-qualified type name, whatever its message.
C9_ReasonKeyIsTypeName ==
    (OnException /\ Retried) =>
        LET key == "retry/reason_count/" \o global_object_name(last.failure.cls)
        IN  /\ key \in DOMAIN stats
            /\ stats[key] = get(last.stats, key, 0) + 1

\* C10: with the budget exhausted process_response returns the original
\* response, process_exception returns None, and neither returns a request.
C10_ExhaustedResults ==
    (ReachedRetry /\ Exhausted) =>
        /\ ~Retried
        /\ OnResponse =>
              last.result.kind = "Response" /\ last.result.value = last.failure
        /\ OnException => last.result.kind = "None"

\* the response path gave up after at least one retry
C10_Witness ==
    /\ ReachedRetry
    /\ Exhausted
    /\ OnResponse
    /\ retried[1] >= 1
    /\ state[1] = "passed"
    /\ last.result.kind = "Response"

EmptyStats == [k \in {} |-> 0]

\* C11: with RETRY_ENABLED false the constructor raises NotConfigured after
\* reading that one setting, so there is no instance: no call is ever made,
\* no request is returned and no counter is incremented.
C11_DisabledIsNotConfigured ==
    ~settings.RETRY_ENABLED =>
        /\ mw.raised = "NotConfigured"
        /\ reads = <<"RETRY_ENABLED">>
        /\ ~Called
        /\ stats = EmptyStats
        /\ \A s \in Slots : retried[s] = 0 /\ gaveup[s] = 0

\* construction from settings that disable retries, all of whose other
\* settings are well-formed
C11_Witness ==
    /\ ~settings.RETRY_ENABLED
    /\ settings.RETRY_TIMES = 3
    /\ mw = NotConfigured
    /\ state[1] = "downloading"

\* the classes that are d or derive from it
SubclassesOf(d) == {c \in Classes : issubclass(c, d)}
\* the shared retry procedure ran in the last call: each of its two
\* branches increments a counter
InvokedRetry == stats # last.stats

\* C12: process_exception runs the shared retry procedure iff the class of
\* the exception is a retryable class or derives from one and dont_retry is
\* not set; an exception of any other class gets None, whatever retry_times
\* and max_retry_times are.
C12_ExceptionPathClassification ==
    OnException =>
        LET matches ==
                \E i \in 1..Len(mw.exceptions_to_retry) :
                    last.failure.cls \in SubclassesOf(mw.exceptions_to_retry[i])
        IN  /\ InvokedRetry <=> (matches /\ ~DontRetry(last.request))
            /\ ~matches => (last.result.kind = "None" /\ ~InvokedRetry)

\* an exception of a class that derives from a retryable class was retried
C12_Witness ==
    /\ OnException
    /\ last.failure.cls = ConnectionRefusedError
    /\ \E i \in 1..Len(mw.exceptions_to_retry) :
          mw.exceptions_to_retry[i] = ConnectError
    /\ Retried

\* C13: a retry leaves the failed request as it was, and the request it
\* returns differs from it in meta.retry_times, dont_filter and priority
\* only: every other field and every other meta entry is the same.
C13_RetryTouchesOnlyTheCopy ==
    Retried =>
        LET old == last.request
            new == last.result.value
        IN  /\ last.after = old
            /\ new.url = old.url
            /\ DOMAIN new.meta = DOMAIN old.meta \cup {"retry_times"}
            /\ \A k \in DOMAIN old.meta \ {"retry_times"} :
                  new.meta[k] = old.meta[k]
            /\ DOMAIN new = DOMAIN old

\* a retry of a request without retry_times, not yet exempt from filtering,
\* that carries both other reserved keys, under a non-zero adjustment
C13_Witness ==
    /\ Retried
    /\ DOMAIN last.request.meta = {"dont_retry", "max_retry_times"}
    /\ ~last.request.dont_filter
    /\ mw.priority_adjust # 0
    /\ last.after = last.request
    /\ last.result.value # last.request

\* the policy classifies the failure of call c as retryable
Classified(c) ==
    IF c.op = "process_response"
    THEN c.failure.status \in mw.retry_http_codes
    ELSE isinstance_any(c.failure, mw.exceptions_to_retry)

\* calls a and b are calls of one entry point with the same retry_times,
\* effective maximum, dont_retry and failure classification
SameInputs(a, b) ==
    /\ a.op # "none"
    /\ a.op = b.op
    /\ RetryTimesOf(a.request) = RetryTimesOf(b.request)
    /\ EffectiveMax(a.request) = EffectiveMax(b.request)
    /\ DontRetry(a.request) = DontRetry(b.request)
    /\ Classified(a) = Classified(b)

\* C14: two calls of one entry point that agree on retry_times, effective
\* maximum, dont_retry and failure classification both retry or both do
\* not, whatever calls came before and whatever the stats counters hold.
C14_DecisionHasNoHiddenState ==
    \A s \in Slots, t \in Slots :
        SameInputs(lastcall[s], lastcall[t]) =>
            ((lastcall[s].result.kind = "Request")
                <=> (lastcall[t].result.kind = "Request"))

\* calls on two requests of different priority, made on different stats
\* after different histories, agree on the four inputs and both retry
C14_Witness ==
    /\ SameInputs(lastcall[1], lastcall[2])
    /\ lastcall[1].stats # lastcall[2].stats
    /\ lastcall[1].request.priority # lastcall[2].request.priority
    /\ retried[1] # retried[2]
    /\ lastcall[1].result.kind = "Request"
    /\ lastcall[2].result.kind = "Request"

RECURSIVE SumOver(_, _, _)
\* the sum of the counters of key k over the per-chain stats f of slots S
SumOver(f, S, k) ==
    IF S = {} THEN 0
    ELSE LET s == CHOOSE x \in S : TRUE
         IN  get(f[s], k, 0) + SumOver(f, S \ {s}, k)

\* the increments of key k that calls in flight have yet to perform
Pending(k) ==
    LET n(s) == Cardinality({i \in 1..Len(inflight[s].incs) :
                                inflight[s].incs[i] = k})
    IN  n(1) + n(2)

\* C15: whatever the interleaving of calls on different requests, each call
\* returns what it returns when its chain runs alone (the same decision and,
\* for a retry, the same request), the configuration stays what the
\* constructor made it, and the stats are the sum of what the chains
\* increment alone, less the increments still to be performed.
C15_InterleavingDoesNotInterfere ==
    /\ \A s \in Slots :
          lastcall[s].op # "none" =>
              /\ lastcall[s].result.kind = lastcall[s].alone.kind
              /\ lastcall[s].result.kind = "Request" =>
                    lastcall[s].result.value = lastcall[s].alone.value
    /\ mw = __init__(settings, cls_attrs)
    /\ \A k \in DOMAIN stats \cup DOMAIN own[1] \cup DOMAIN own[2] :
          get(stats, k, 0) + Pending(k) = SumOver(own, Slots, k)

\* both calls are between their two increments, after chain 1 was retried
C15_Witness ==
    /\ inflight[1].active
    /\ inflight[2].active
    /\ Len(inflight[1].incs) = 1
    /\ Len(inflight[2].incs) = 1
    /\ inflight[1].call.result.kind = "Request"
    /\ inflight[2].call.result.kind = "Request"
    /\ lastcall[1].result.kind = "Request"

\* the per-reason counters of stats st
ReasonKeys(st) == DOMAIN st \ {"retry/count", "retry/max_reached"}

RECURSIVE SumKeys(_, _)
SumKeys(st, K) ==
    IF K = {} THEN 0
    ELSE LET k == CHOOSE x \in K : TRUE
         IN  st[k] + SumKeys(st, K \ {k})

RECURSIVE SumSlots(_, _)
SumSlots(f, S) ==
    IF S = {} THEN 0
    ELSE LET s == CHOOSE x \in S : TRUE
         IN  f[s] + SumSlots(f, S \ {s})

\* C16: retry/count is the number of retry requests returned so far and the
\* sum of the per-reason counters; a call that returns a retry adds 1 to
\* retry/count and to exactly one reason counter and leaves
\* retry/max_reached alone.
C16_RetryCountAccounts ==
    /\ get(stats, "retry/count", 0) = SumSlots(retried, Slots)
    /\ get(stats, "retry/count", 0) = SumKeys(stats, ReasonKeys(stats))
    /\ Retried =>
          /\ stats["retry/count"] = get(last.stats, "retry/count", 0) + 1
          /\ \E k \in ReasonKeys(stats) :
                /\ stats[k] = get(last.stats, k, 0) + 1
                /\ \A j \in ReasonKeys(stats) \ {k} :
                      stats[j] = get(last.stats, j, 0)
          /\ MaxReached(stats) = MaxReached(last.stats)

\* three retries for two different reasons
C16_Witness ==
    /\ Retried
    /\ retried[1] = 3
    /\ stats["retry/count"] = 3
    /\ Cardinality(ReasonKeys(stats)) = 2

\* C17: a call that does not reach the shared retry procedure (dont_retry
\* set, status not retryable, exception class not retryable) changes no
\* counter, even when the request's budget is exhausted.
C17_NoRetryProcedureNoStats ==
    (Called /\ ~ReachedRetry) => stats = last.stats

\* a failure that is not retryable, on a request that was retried before
\* and has no budget left
C17_Witness ==
    /\ Called
    /\ ~RetryableFailure
    /\ Exhausted
    /\ retried[1] >= 1
    /\ stats = last.stats
    /\ stats["retry/count"] >= 1

\* C18: a chain that starts with retry_times r (0 when absent) and has the
\* effective maximum m is retried at most max(0, m - r) times, and exactly
\* that often when it gives up; with r >= m, or m <= 0, it gives up on its
\* first failure.
C18_ChainLength ==
    \A s \in Slots :
        (state[s] # "unused" /\ mw.raised = "") =>
            LET budget == Max0(EffectiveMax(first[s]) - RetryTimesOf(first[s]))
            IN  /\ retried[s] <= budget
                /\ gaveup[s] = 1 => retried[s] = budget

\* the caller set retry_times beyond an override of 0: give-up without a
\* retry
C18_Witness ==
    /\ mw.raised = ""
    /\ HasOverride(first[1])
    /\ first[1].meta["max_retry_times"] = 0
    /\ RetryTimesOf(first[1]) = 2
    /\ mw.max_retry_times = 3
    /\ gaveup[1] = 1
    /\ retried[1] = 0

\* C19: the adjustment accumulates: after N retries the chain's request has
\* the priority of the first request plus N * priority_adjust.
C19_PriorityAccumulates ==
    \A s \in Slots :
        (state[s] # "unused" /\ mw.raised = "") =>
            request[s].priority =
                first[s].priority + retried[s] * mw.priority_adjust

\* the third retry under a negative adjustment
C19_Witness ==
    /\ mw.raised = ""
    /\ mw.priority_adjust = -1
    /\ retried[1] = 3
    /\ request[1].priority = first[1].priority - 3

====
